---- MODULE Spec2Model ----
(***************************************************************************)
(* Model of RaytracingRenderer::porcodio (src/src/renderer.rs, 110-215):   *)
(* the compute dispatch and read-back of one render call, together with    *)
(* the part of the wgpu device the call talks to (buffers, the queue, the  *)
(* map-for-read requests and their callbacks).                             *)
(*                                                                         *)
(* Two render calls run on one renderer (porcodio takes &self), their      *)
(* statements interleaved in any order; a sequential run is one of the     *)
(* interleavings.                                                          *)
(*                                                                         *)
(* u64 is scaled down to WordBits bits so that the wrap of                 *)
(* width * height * 16 happens for small inputs.  Buffer contents are kept *)
(* per 16-byte pixel record.                                               *)
(***************************************************************************)
EXTENDS Integers, Sequences, FiniteSets, TLC

\* ---------------------------------------------------------------- bounds
\* width and height range over 0..MaxDim
MaxDim == 3
\* number of bits of the (scaled) u64
WordBits == 6

\* the render calls in flight on the one renderer
Calls == {1, 2}

\* ------------------------------------------------------ program constants
\* std::mem::size_of::<[f32; 4]>()
BytesPerPixel == 16
\* pass.dispatch_workgroups(256, 256, 64)
WorkgroupsX == 256
WorkgroupsY == 256
WorkgroupsZ == 64
\* @workgroup_size of shaders/ray_gen.wgsl (the shader is not part of src/)
TileX == 8
TileY == 8
TileZ == 1

U64Modulus == 2 ^ WordBits

\* BufferUsages of the two buffers
OutputUsage == {"STORAGE", "COPY_SRC"}
ReadbackUsage == {"MAP_READ", "COPY_DST"}

\* panic messages / outcomes of a call
Running == "running"
Returned == "returned"
PanicOverflow == "attempt to multiply with overflow"
PanicValidation == "wgpu validation error"
PanicCouldNotMapBuffer == "Could not map buffer"
PanicNotMapped == "buffer is not mapped"

\* values of locals that are not yet bound
NoVec == <<-1>>
NoBindGroup == [resource |-> 0, creator |-> 0]
NoPipeline == [label |-> "", creator |-> 0]
NotReceived == "none"

VARIABLES
    overflow_checks, \* build profile: TRUE = debug (overflow panics), FALSE = release (wraps)
    width, height,   \* arguments of each call
    pc,              \* position of each call in porcodio
    outcome,         \* Running, Returned or the panic that ended the call
    staging_buf,     \* local `staging_buf`: id of the kernel output buffer, 0 before creation
    buffer,          \* local `buffer`: id of the host-mappable buffer, 0 before creation
    bg,              \* local `bg`: the bind group
    ray_gen_pipeline,\* local `ray_gen_pipeline`: the call's pipeline
    encoder,         \* local `encoder`: recorded commands
    chan,            \* the oneshot channel of each call
    received,        \* what receiver.receive().await returned
    vec,             \* local `vec`
    result,          \* the Vec<u8> handed to the caller
    renderer,        \* fields of RaytracingRenderer
    buffers,         \* device: all buffers ever created, index = buffer id
    submissions,     \* device: every queue.submit so far, in order
    executed,        \* device: number of submissions the device has finished
    mapRequests,     \* device: map_async requests whose callback has not fired
    mapLog,          \* history: callbacks fired
    startedAfter     \* history: calls already finished when this call started

vars == <<overflow_checks, width, height, pc, outcome, staging_buf, buffer, bg,
          ray_gen_pipeline, encoder, chan, received, vec, result, renderer,
          buffers, submissions, executed, mapRequests, mapLog, startedAfter>>


\* ------------------------------------------------------------ arithmetic
\* u64 multiplication in a release build
WrappingMul(a, b) == (a * b) % U64Modulus

\* width * height * size_of::<[f32; 4]>() as u64, release build
BufferSize(w, h) == WrappingMul(WrappingMul(w, h), BytesPerPixel)

\* the same expression overflows (debug build: panic)
SizeOverflows(w, h) ==
    \/ w * h >= U64Modulus
    \/ WrappingMul(w, h) * BytesPerPixel >= U64Modulus

Ceil(a, b) == (a + b - 1) \div b

\* ---------------------------------------------------------------- kernel
\* value the generation kernel writes into pixel record i
KernelValue(i) == 1 + (i % 2)

\* invocations of one dispatch
Invocations(cmd) == (cmd.x * TileX) * (cmd.y * TileY) * (cmd.z * TileZ)

\* ---------------------------------------------------------------- device
Zeroes(n) == [i \in 1..n |-> 0]

\* device.create_buffer: zero-initialised, unmapped
NewBuffer(size, usage, c) ==
    [size |-> size, usage |-> usage, data |-> Zeroes(size \div BytesPerPixel),
     mapState |-> "unmapped", creator |-> c]

DispatchCmd(bind, pipeline) ==
    [op |-> "dispatch", src |-> bind.resource, dst |-> 0, size |-> 0,
     x |-> WorkgroupsX, y |-> WorkgroupsY, z |-> WorkgroupsZ,
     pipeline |-> pipeline, bindCreator |-> bind.creator]

CopyCmd(src, dst, size) ==
    [op |-> "copy", src |-> src, dst |-> dst, size |-> size,
     x |-> 0, y |-> 0, z |-> 0, pipeline |-> NoPipeline, bindCreator |-> 0]

\* effect of one command on the device's buffers
ExecCommand(bufs, cmd) ==
    IF cmd.op = "dispatch"
    THEN [bufs EXCEPT ![cmd.src].data =
            [i \in 1..Len(@) |-> IF i <= Invocations(cmd) THEN KernelValue(i) ELSE @[i]]]
    ELSE LET n == cmd.size \div BytesPerPixel
         IN  [bufs EXCEPT ![cmd.dst].data =
                [i \in 1..Len(@) |->
                    IF i <= n /\ i <= Len(bufs[cmd.src].data)
                    THEN bufs[cmd.src].data[i] ELSE @[i]]]

RECURSIVE ExecCommands(_, _)
ExecCommands(bufs, cmds) ==
    IF cmds = <<>> THEN bufs
    ELSE ExecCommands(ExecCommand(bufs, Head(cmds)), Tail(cmds))


\* index of the last submission that uses buffer b, 0 if none
LastUse(b) ==
    LET using == {i \in 1..Len(submissions) :
                    \E k \in 1..Len(submissions[i].commands) :
                        \/ submissions[i].commands[k].src = b
                        \/ submissions[i].commands[k].dst = b}
    IN  IF using = {} THEN 0 ELSE CHOOSE i \in using : \A j \in using : j <= i

\* the result the device hands to the callback of request r; `lost` says
\* whether the device turned out to be lost when the mapping was resolved
MapStatus(r, lost) == IF r.valid /\ ~lost THEN "Ok" ELSE "Err"

\* The device fires the callbacks of the requests whose work is finished, in
\* request order.  st = [chan, buffers, log, left, by, lost]; `by` is the call
\* whose poll or submit drives the device.  The callback is the closure
\* move |v| sender.send(v).unwrap() of the call that issued the request.
RECURSIVE FireCallbacks(_, _, _)
FireCallbacks(st, reqs, done) ==
    IF reqs = <<>> THEN st
    ELSE LET r == Head(reqs)
         IN  IF r.readyAt <= done
             THEN FireCallbacks(
                    [chan    |-> [st.chan EXCEPT ![r.sender].values = Append(@, MapStatus(r, st.lost)),
                                                 ![r.sender].senders = 0],
                     buffers |-> IF r.valid
                                 THEN [st.buffers EXCEPT ![r.buffer].mapState =
                                          IF MapStatus(r, st.lost) = "Ok" THEN "mapped" ELSE "unmapped"]
                                 ELSE st.buffers,
                     log     |-> Append(st.log, [buffer |-> r.buffer, sender |-> r.sender,
                                                 firedBy |-> st.by, status |-> MapStatus(r, st.lost)]),
                     left    |-> st.left, by |-> st.by, lost |-> st.lost],
                    Tail(reqs), done)
             ELSE FireCallbacks([st EXCEPT !.left = Append(@, r)], Tail(reqs), done)

Fired(by, lost) ==
    FireCallbacks([chan |-> chan, buffers |-> buffers, log |-> mapLog, left |-> <<>>,
                   by |-> by, lost |-> lost],
                  mapRequests, executed)

\* -------------------------------------------------------------- the call
Finish(c, how) ==
    /\ pc' = [pc EXCEPT ![c] = "done"]
    /\ outcome' = [outcome EXCEPT ![c] = how]

Goto(c, label) ==
    /\ pc' = [pc EXCEPT ![c] = label]
    /\ UNCHANGED outcome

\* lines 111-116: let staging_buf = create_buffer(size, STORAGE | COPY_SRC)
AllocOutput(c) ==
    /\ pc[c] = "alloc_output"
    /\ startedAfter' = [startedAfter EXCEPT ![c] = {d \in Calls : pc[d] = "done"}]
    /\ IF overflow_checks /\ SizeOverflows(width[c], height[c])
       THEN /\ Finish(c, PanicOverflow)
            /\ UNCHANGED <<buffers, staging_buf>>
       ELSE /\ buffers' = Append(buffers,
                            NewBuffer(BufferSize(width[c], height[c]), OutputUsage, c))
            /\ staging_buf' = [staging_buf EXCEPT ![c] = Len(buffers) + 1]
            /\ Goto(c, "alloc_readback")
    /\ UNCHANGED <<overflow_checks, width, height, buffer, bg, ray_gen_pipeline, encoder,
                   chan, received, vec, result, renderer, submissions,
                   executed, mapRequests, mapLog>>

\* AllocReadback with a pooled host-mappable buffer: a buffer of that usage
\* which already exists is taken instead of creating one
AllocReadbackPooled(c) ==
    /\ pc[c] = "alloc_readback"
    /\ LET pool == {b \in 1..Len(buffers) : buffers[b].usage = ReadbackUsage}
       IN  IF pool = {}
           THEN /\ buffers' = Append(buffers,
                        NewBuffer(BufferSize(width[c], height[c]), ReadbackUsage, c))
                /\ buffer' = [buffer EXCEPT ![c] = Len(buffers) + 1]
           ELSE /\ buffer' = [buffer EXCEPT ![c] = CHOOSE b \in pool : TRUE]
                /\ UNCHANGED buffers
    /\ Goto(c, "encode")
    /\ UNCHANGED <<overflow_checks, width, height, staging_buf, bg, ray_gen_pipeline,
                   encoder, chan, received, vec, result, renderer,
                   submissions, executed, mapRequests, mapLog, startedAfter>>

\* lines 118-123: let buffer = create_buffer(size, MAP_READ | COPY_DST)
AllocReadback(c) ==
    /\ pc[c] = "alloc_readback"
    /\ buffers' = Append(buffers,
                    NewBuffer(BufferSize(width[c], height[c]), ReadbackUsage, c))
    /\ buffer' = [buffer EXCEPT ![c] = Len(buffers) + 1]
    /\ Goto(c, "encode")
    /\ UNCHANGED <<overflow_checks, width, height, staging_buf, bg, ray_gen_pipeline,
                   encoder, chan, received, vec, result, renderer,
                   submissions, executed, mapRequests, mapLog, startedAfter>>

\* BindGroupResource with a bind group kept from the first render: it binds the
\* first buffer the device created
BindGroupResourceCached(c) == 1

\* line 150: resource: staging_buf.as_entire_binding()
BindGroupResource(c) == staging_buf[c]

\* Record with the copy recorded ahead of the compute pass
RecordCopyFirst(c, bind, pipeline) ==
    << CopyCmd(staging_buf[c], buffer[c], BufferSize(width[c], height[c])),
       DispatchCmd(bind, pipeline) >>

\* lines 171-193: compute pass (set_bind_group, set_pipeline,
\* dispatch_workgroups), then copy_buffer_to_buffer(staging_buf, 0, buffer, 0, size)
Record(c, bind, pipeline) ==
    << DispatchCmd(bind, pipeline),
       CopyCmd(staging_buf[c], buffer[c], BufferSize(width[c], height[c])) >>

\* lines 125-193: shader module, bind group layout, bind group, pipeline layout
\* and a pipeline of the call's own, then the command encoder.  The device
\* rejects a binding of size zero and a storage binding of a buffer without
\* STORAGE usage; the default uncaptured-error handler panics.
Encode(c) ==
    /\ pc[c] = "encode"
    /\ IF \/ buffers[BindGroupResource(c)].size = 0
          \/ "STORAGE" \notin buffers[BindGroupResource(c)].usage
       THEN /\ Finish(c, PanicValidation)
            /\ UNCHANGED <<bg, ray_gen_pipeline, encoder>>
       ELSE LET bind == [resource |-> BindGroupResource(c), creator |-> c]
                pipeline == [label |-> "Ray generation pipeline", creator |-> c]
            IN  /\ bg' = [bg EXCEPT ![c] = bind]
                /\ ray_gen_pipeline' = [ray_gen_pipeline EXCEPT ![c] = pipeline]
                /\ encoder' = [encoder EXCEPT ![c] = Record(c, bind, pipeline)]
                /\ Goto(c, "submit")
    /\ UNCHANGED <<overflow_checks, width, height, staging_buf, buffer, chan,
                   received, vec, result, renderer, buffers, submissions, executed,
                   mapRequests, mapLog, startedAfter>>

\* line 195: self.queue.submit(Some(encoder.finish())); the queue maintains the
\* device without waiting, which fires the callbacks that are ready
Submit(c) ==
    /\ pc[c] = "submit"
    /\ submissions' = Append(submissions, [by |-> c, commands |-> encoder[c]])
    /\ \E lost \in BOOLEAN :
         LET f == Fired(c, lost)
         IN  /\ chan' = f.chan
             /\ buffers' = f.buffers
             /\ mapLog' = f.log
             /\ mapRequests' = f.left
    /\ Goto(c, "map_async")
    /\ UNCHANGED <<overflow_checks, width, height, staging_buf, buffer, bg,
                   ray_gen_pipeline, encoder, received, vec, result, renderer, executed, startedAfter>>

\* MapAsync issued in place of the queue submission: the encoder is never submitted
MapAsyncWithoutSubmit(c) ==
    /\ pc[c] \in {"submit", "map_async"}
    /\ chan' = [chan EXCEPT ![c] = [created |-> TRUE, values |-> <<>>, senders |-> 1]]
    /\ LET b == buffer[c]
           ok == "MAP_READ" \in buffers[b].usage /\ buffers[b].mapState = "unmapped"
       IN  /\ mapRequests' = Append(mapRequests,
                [buffer |-> b, sender |-> c, readyAt |-> LastUse(b), valid |-> ok])
           /\ buffers' = IF ok THEN [buffers EXCEPT ![b].mapState = "pending"] ELSE buffers
    /\ Goto(c, "poll")
    /\ UNCHANGED <<overflow_checks, width, height, staging_buf, buffer, bg,
                   ray_gen_pipeline, encoder, received, vec, result, renderer,
                   submissions, executed, mapLog, startedAfter>>

\* lines 197-200: oneshot_channel(); buffer.slice(..).map_async(Read, callback)
MapAsync(c) ==
    /\ pc[c] = "map_async"
    /\ chan' = [chan EXCEPT ![c] = [created |-> TRUE, values |-> <<>>, senders |-> 1]]
    /\ LET b == buffer[c]
           ok == "MAP_READ" \in buffers[b].usage /\ buffers[b].mapState = "unmapped"
       IN  /\ mapRequests' = Append(mapRequests,
                [buffer |-> b, sender |-> c, readyAt |-> LastUse(b), valid |-> ok])
           /\ buffers' = IF ok THEN [buffers EXCEPT ![b].mapState = "pending"] ELSE buffers
    /\ Goto(c, "poll")
    /\ UNCHANGED <<overflow_checks, width, height, staging_buf, buffer, bg,
                   ray_gen_pipeline, encoder, received, vec, result, renderer, submissions, executed, mapLog, startedAfter>>

\* Poll with Maintain::Poll: it does not wait for the submitted work, and fires
\* only the callbacks that happen to be ready
PollNoWait(c) ==
    /\ pc[c] = "poll"
    /\ \E lost \in BOOLEAN :
         LET f == Fired(c, lost)
         IN  /\ chan' = f.chan
             /\ buffers' = f.buffers
             /\ mapLog' = f.log
             /\ mapRequests' = f.left
    /\ Goto(c, "receive")
    /\ UNCHANGED <<overflow_checks, width, height, staging_buf, buffer, bg,
                   ray_gen_pipeline, encoder, received, vec, result, renderer,
                   submissions, executed, startedAfter>>

\* line 202: self.device.poll(Maintain::Wait) returns once every submission is
\* finished, after firing the callbacks of all requests that became ready
Poll(c) ==
    /\ pc[c] = "poll"
    /\ executed = Len(submissions)
    /\ \E lost \in BOOLEAN :
         LET f == Fired(c, lost)
         IN  /\ chan' = f.chan
             /\ buffers' = f.buffers
             /\ mapLog' = f.log
             /\ mapRequests' = f.left
    /\ Goto(c, "receive")
    /\ UNCHANGED <<overflow_checks, width, height, staging_buf, buffer, bg,
                   ray_gen_pipeline, encoder, received, vec, result, renderer, submissions, executed, startedAfter>>

\* Receive matching Some(_): any result sent by the callback counts as success
ReceiveIgnoresResult(c) ==
    /\ pc[c] = "receive"
    /\ chan[c].values # <<>> \/ chan[c].senders = 0
    /\ LET r == IF chan[c].values # <<>> THEN Head(chan[c].values) ELSE "Closed"
       IN  /\ received' = [received EXCEPT ![c] = r]
           /\ chan' = [chan EXCEPT ![c].values = IF @ = <<>> THEN @ ELSE Tail(@)]
           /\ IF r # "Closed"
              THEN Goto(c, "get_mapped_range")
              ELSE Finish(c, PanicCouldNotMapBuffer)
    /\ UNCHANGED <<overflow_checks, width, height, staging_buf, buffer, bg,
                   ray_gen_pipeline, encoder, vec, result, renderer,
                   buffers, submissions, executed, mapRequests, mapLog,
                   startedAfter>>

\* Receive whose else branch returns Vec::new() instead of panicking
ReceiveEmptyOnError(c) ==
    /\ pc[c] = "receive"
    /\ chan[c].values # <<>> \/ chan[c].senders = 0
    /\ LET r == IF chan[c].values # <<>> THEN Head(chan[c].values) ELSE "Closed"
       IN  /\ received' = [received EXCEPT ![c] = r]
           /\ chan' = [chan EXCEPT ![c].values = IF @ = <<>> THEN @ ELSE Tail(@)]
           /\ IF r = "Ok"
              THEN /\ Goto(c, "get_mapped_range")
                   /\ UNCHANGED result
              ELSE /\ Finish(c, Returned)
                   /\ result' = [result EXCEPT ![c] = <<>>]
    /\ UNCHANGED <<overflow_checks, width, height, staging_buf, buffer, bg,
                   ray_gen_pipeline, encoder, vec, renderer,
                   buffers, submissions, executed, mapRequests, mapLog,
                   startedAfter>>

\* lines 204, 212-214: if let Some(Ok(())) = receiver.receive().await { .. }
\* else { panic!("Could not map buffer") }
Receive(c) ==
    /\ pc[c] = "receive"
    /\ chan[c].values # <<>> \/ chan[c].senders = 0
    /\ LET r == IF chan[c].values # <<>> THEN Head(chan[c].values) ELSE "Closed"
       IN  /\ received' = [received EXCEPT ![c] = r]
           /\ chan' = [chan EXCEPT ![c].values = IF @ = <<>> THEN @ ELSE Tail(@)]
           /\ IF r = "Ok"
              THEN Goto(c, "get_mapped_range")
              ELSE Finish(c, PanicCouldNotMapBuffer)
    /\ UNCHANGED <<overflow_checks, width, height, staging_buf, buffer, bg,
                   ray_gen_pipeline, encoder, vec, result, renderer,
                   buffers, submissions, executed, mapRequests, mapLog,
                   startedAfter>>

\* lines 205-207: get_mapped_range(), as_bytes().to_vec(), drop(data);
\* get_mapped_range panics when the buffer is not mapped
GetMappedRange(c) ==
    /\ pc[c] = "get_mapped_range"
    /\ IF buffers[buffer[c]].mapState = "mapped"
       THEN /\ vec' = [vec EXCEPT ![c] = buffers[buffer[c]].data]
            /\ Goto(c, "unmap")
       ELSE /\ Finish(c, PanicNotMapped)
            /\ UNCHANGED vec
    /\ UNCHANGED <<overflow_checks, width, height, staging_buf, buffer, bg,
                   ray_gen_pipeline, encoder, chan, received, result, renderer, buffers, submissions, executed, mapRequests, mapLog, startedAfter>>

\* line 209: buffer.unmap()
Unmap(c) ==
    /\ pc[c] = "unmap"
    /\ buffers' = [buffers EXCEPT ![buffer[c]].mapState = "unmapped"]
    /\ Goto(c, "return")
    /\ UNCHANGED <<overflow_checks, width, height, staging_buf, buffer, bg,
                   ray_gen_pipeline, encoder, chan, received, vec, result, renderer, submissions, executed, mapRequests, mapLog, startedAfter>>

\* line 211: vec
Return(c) ==
    /\ pc[c] = "return"
    /\ result' = [result EXCEPT ![c] = vec[c]]
    /\ Finish(c, Returned)
    /\ UNCHANGED <<overflow_checks, width, height, staging_buf, buffer, bg,
                   ray_gen_pipeline, encoder, chan, received, vec, renderer, buffers, submissions, executed, mapRequests, mapLog, startedAfter>>

\* ------------------------------------------------------- the device side
\* the device finishes the oldest unfinished submission
DeviceExecute ==
    /\ executed < Len(submissions)
    /\ buffers' = ExecCommands(buffers, submissions[executed + 1].commands)
    /\ executed' = executed + 1
    /\ UNCHANGED <<overflow_checks, width, height, pc, outcome, staging_buf, buffer, bg,
                   ray_gen_pipeline, encoder, chan, received, vec, result, renderer, submissions, mapRequests, mapLog,
                   startedAfter>>

\* ------------------------------------------------------- specification
\* RaytracingRenderer::new: the five pipelines stored in the renderer
NewRenderer ==
    [device |-> "Main device", ray_gen_pipeline |-> 1, ray_chit_pipeline |-> 2,
     ray_ahit_pipeline |-> 3, ray_miss_pipeline |-> 4, ray_intersect_pipeline |-> 5]

\* porcodio uses width and height through the product width * height only
\* (lines 113, 120, 192), so the arguments are enumerated up to their order.
Init ==
    /\ overflow_checks \in BOOLEAN
    /\ width \in [Calls -> 0..MaxDim]
    /\ height \in [Calls -> 0..MaxDim]
    /\ \A c \in Calls : height[c] <= width[c]
    /\ pc = [c \in Calls |-> "alloc_output"]
    /\ outcome = [c \in Calls |-> Running]
    /\ staging_buf = [c \in Calls |-> 0]
    /\ buffer = [c \in Calls |-> 0]
    /\ bg = [c \in Calls |-> NoBindGroup]
    /\ ray_gen_pipeline = [c \in Calls |-> NoPipeline]
    /\ encoder = [c \in Calls |-> <<>>]
    /\ chan = [c \in Calls |-> [created |-> FALSE, values |-> <<>>, senders |-> 0]]
    /\ received = [c \in Calls |-> NotReceived]
    /\ vec = [c \in Calls |-> NoVec]
    /\ result = [c \in Calls |-> NoVec]
    /\ renderer = NewRenderer
    /\ buffers = <<>>
    /\ submissions = <<>>
    /\ executed = 0
    /\ mapRequests = <<>>
    /\ mapLog = <<>>
    /\ startedAfter = [c \in Calls |-> {}]

CallStep(c) ==
    \/ AllocOutput(c)
    \/ AllocReadback(c)
    \/ Encode(c)
    \/ Submit(c)
    \/ MapAsync(c)
    \/ Poll(c)
    \/ Receive(c)
    \/ GetMappedRange(c)
    \/ Unmap(c)
    \/ Return(c)

Next ==
    \/ \E c \in Calls : CallStep(c)
    \/ DeviceExecute

Spec == Init /\ [][Next]_vars

\* main.rs:10 renders a square: porcodio(dimension, dimension)
SquareInit == Init /\ \A c \in Calls : width[c] = height[c]

\* The executor keeps running every call that can take a step, and the device
\* keeps working on what was submitted.
FairSpec ==
    /\ SquareInit
    /\ [][Next]_vars
    /\ \A c \in Calls : WF_vars(CallStep(c))
    /\ WF_vars(DeviceExecute)


\* --------------------------------------------------- derived observations
Range(f) == {f[i] : i \in DOMAIN f}

\* the submissions call c has made
SubmissionsBy(c) == {i \in 1..Len(submissions) : submissions[i].by = c}

\* the map requests call c has issued, pending or resolved
MapRequestsBy(c) ==
    Cardinality({i \in 1..Len(mapRequests) : mapRequests[i].sender = c})
    + Cardinality({i \in 1..Len(mapLog) : mapLog[i].sender = c})

\* length in bytes of a byte vector kept per pixel record
ByteLen(v) == Len(v) * BytesPerPixel

\* the state of the dispatch state machine call c is in, read off what the
\* call and the device have done so far
DispatchState(c) ==
    IF received[c] # NotReceived /\ received[c] # "Ok" THEN "MapFailed"
    ELSE IF received[c] = "Ok" /\ buffers[buffer[c]].mapState # "mapped" THEN "Unmapped"
    ELSE IF received[c] = "Ok" /\ vec[c] # NoVec THEN "Copied"
    ELSE IF received[c] = "Ok" THEN "MapReady"
    ELSE IF chan[c].created THEN "MapRequested"
    ELSE IF SubmissionsBy(c) # {} THEN "Submitted"
    ELSE "Idle"

DispatchEdges ==
    { <<"Idle", "Submitted">>, <<"Submitted", "MapRequested">>,
      <<"MapRequested", "MapReady">>, <<"MapRequested", "MapFailed">>,
      <<"MapReady", "Copied">>, <<"Copied", "Unmapped">> }

\* ------------------------------------------------------------------ C1
\* C1: for every width > 0 and height > 0 a call that returns hands back
\* exactly width * height * 16 bytes, and the output buffer, the mapped buffer
\* and the copy between them have that size.
C1_ReturnsWidthHeight16Bytes ==
    \A c \in Calls :
        (outcome[c] = Returned /\ width[c] > 0 /\ height[c] > 0) =>
            /\ ByteLen(result[c]) = width[c] * height[c] * BytesPerPixel
            /\ buffers[staging_buf[c]].size = width[c] * height[c] * BytesPerPixel
            /\ buffers[buffer[c]].size = width[c] * height[c] * BytesPerPixel
            /\ \A i \in SubmissionsBy(c) :
                   submissions[i].commands[2].size = width[c] * height[c] * BytesPerPixel

\* ------------------------------------------------------------------ C2
\* C2: a call moves Idle -> Submitted -> MapRequested and then either
\* MapReady -> Copied -> Unmapped or MapFailed, one edge at a time and only
\* along these edges; Unmapped and MapFailed are left by no step; a call
\* returns only from Unmapped.
C2_DispatchStateOrder ==
    [][ \A c \in Calls :
          /\ \/ DispatchState(c)' = DispatchState(c)
             \/ <<DispatchState(c), DispatchState(c)'>> \in DispatchEdges
          /\ (outcome[c] # Returned /\ outcome'[c] = Returned) =>
                 /\ DispatchState(c) = "Unmapped"
                 /\ vec[c] # NoVec /\ result'[c] = vec[c]
      ]_vars

C2_Witness ==
    \E c, d \in Calls :
        /\ outcome[c] = Returned /\ DispatchState(c) = "Unmapped"
        /\ outcome[d] = PanicCouldNotMapBuffer /\ DispatchState(d) = "MapFailed"

\* ------------------------------------------------------------------ C3
\* C3: the call is at get_mapped_range, or holds bytes read from the mapped
\* range, only if the callback of its own buffer fired with success, and the
\* buffer is still mapped when the range is read and until unmap is called.
C3_ReadOnlyWhileMapped ==
    \A c \in Calls :
        /\ (pc[c] \in {"get_mapped_range", "unmap"} \/ vec[c] # NoVec) =>
               /\ received[c] = "Ok"
               /\ \E i \in 1..Len(mapLog) :
                      mapLog[i].buffer = buffer[c] /\ mapLog[i].status = "Ok"
        /\ pc[c] \in {"get_mapped_range", "unmap"} =>
               buffers[buffer[c]].mapState = "mapped"
        /\ outcome[c] # PanicNotMapped

C3_Witness ==
    \E c \in Calls : pc[c] = "unmap" /\ vec[c] # NoVec /\ Len(vec[c]) > 0

\* ------------------------------------------------------------------ C4
\* C4: once the map request of a call has completed with a failure signal the
\* call holds and returns no bytes, ends (when it ends) with the panic
\* "Could not map buffer", and has submitted and requested a map once only.
C4_MapFailureIsFatal ==
    \A c \in Calls :
        (\/ "Err" \in Range(chan[c].values)
         \/ (received[c] # NotReceived /\ received[c] # "Ok")) =>
            /\ vec[c] = NoVec
            /\ result[c] = NoVec
            /\ outcome[c] \in {Running, PanicCouldNotMapBuffer}
            /\ pc[c] \in {"poll", "receive", "done"}
            /\ received[c] # NotReceived => outcome[c] = PanicCouldNotMapBuffer
            /\ Cardinality(SubmissionsBy(c)) = 1
            /\ MapRequestsBy(c) = 1

C4_Witness ==
    \E c \in Calls :
        /\ received[c] = "Err"
        /\ outcome[c] = PanicCouldNotMapBuffer
        /\ buffers[buffer[c]].size > 0

\* ------------------------------------------------------------------ C5
\* C5: a call with width = 0 or height = 0, or whose width * height * 16 does
\* not fit the unsigned word, creates no buffer and submits nothing, and ends
\* only by a panic.
C5_RejectsZeroAndOverflow ==
    \A c \in Calls :
        (\/ width[c] = 0
         \/ height[c] = 0
         \/ width[c] * height[c] * BytesPerPixel >= U64Modulus) =>
            /\ staging_buf[c] = 0
            /\ buffer[c] = 0
            /\ SubmissionsBy(c) = {}
            /\ outcome[c] # Returned

\* ------------------------------------------------------------------ C6
\* C6: of two calls made one after the other with the same width and height,
\* both returning, the second returns the same bytes as the first.
C6_SequentialRendersAgree ==
    \A c, d \in Calls :
        (/\ c \in startedAfter[d]
         /\ outcome[c] = Returned /\ outcome[d] = Returned
         /\ width[c] = width[d] /\ height[c] = height[d]) =>
            result[d] = result[c]

C6_Witness ==
    \E c, d \in Calls :
        /\ c \in startedAfter[d]
        /\ outcome[c] = Returned /\ outcome[d] = Returned
        /\ width[c] = width[d] /\ height[c] = height[d]
        /\ Len(result[d]) > 1

\* ------------------------------------------------------------------ C7
\* C7: the workgroup counts of every dispatch are ceil(width / tile_x) and
\* ceil(height / tile_y), so that counts * tile covers width and height.
C7_WorkgroupsFromResolution ==
    \A i \in 1..Len(submissions) :
        \A k \in 1..Len(submissions[i].commands) :
            LET cmd == submissions[i].commands[k]
                c == submissions[i].by
            IN  cmd.op = "dispatch" =>
                    /\ cmd.x * TileX >= width[c]
                    /\ cmd.y * TileY >= height[c]
                    /\ cmd.x = Ceil(width[c], TileX)
                    /\ cmd.y = Ceil(height[c], TileY)

\* ------------------------------------------------------------------ C8
\* C8: once a call has requested the map, the buffer it maps has usage
\* MAP_READ | COPY_DST, the buffer bound to the kernel has usage
\* STORAGE | COPY_SRC, and the call has made exactly one submission, holding
\* the dispatch on the bound buffer followed by the copy from that buffer into
\* the mapped one over the full size of both.
C8_MapAfterSubmittedCopy ==
    \A c \in Calls :
        chan[c].created =>
            /\ buffers[buffer[c]].usage = {"MAP_READ", "COPY_DST"}
            /\ buffers[bg[c].resource].usage = {"STORAGE", "COPY_SRC"}
            /\ \A i \in 1..Len(mapRequests) :
                   mapRequests[i].sender = c =>
                       mapRequests[i].buffer = buffer[c] /\ mapRequests[i].valid
            /\ Cardinality(SubmissionsBy(c)) = 1
            /\ \A i \in SubmissionsBy(c) :
                   LET cmds == submissions[i].commands
                   IN  /\ Len(cmds) = 2
                       /\ cmds[1].op = "dispatch"
                       /\ cmds[1].src = bg[c].resource
                       /\ cmds[2].op = "copy"
                       /\ cmds[2].src = bg[c].resource
                       /\ cmds[2].dst = buffer[c]
                       /\ cmds[2].size = buffers[cmds[2].src].size
                       /\ cmds[2].size = buffers[cmds[2].dst].size

C8_Witness ==
    \E c \in Calls :
        /\ chan[c].created
        /\ pc[c] = "poll"
        /\ buffers[buffer[c]].mapState = "pending"
        /\ buffers[buffer[c]].size > BytesPerPixel

\* ------------------------------------------------------------------ C9
\* C9: whenever a call stands at the receive after its poll, exactly one
\* result is waiting on its channel; and every call that has issued its map
\* request eventually returns its bytes (Unmapped) or fails with
\* "Could not map buffer" (MapFailed).
C9_HandshakeCompletes ==
    /\ [](\A c \in Calls : pc[c] = "receive" => Len(chan[c].values) = 1)
    /\ \A c \in Calls :
           chan[c].created ~>
               \/ (outcome[c] = Returned /\ DispatchState(c) = "Unmapped")
               \/ (outcome[c] = PanicCouldNotMapBuffer /\ DispatchState(c) = "MapFailed")

C9_Witness ==
    \E c \in Calls :
        /\ pc[c] = "receive"
        /\ chan[c].values = <<"Ok">>
        /\ \E d \in Calls : d # c /\ pc[d] = "poll"

\* ----------------------------------------------------------------- C10
\* C10: every buffer a call holds, binds, copies from or into, maps, reads or
\* unmaps was created by that call, as were its bind group and pipeline; a
\* callback delivers its result to the call that created the buffer and
\* issued the request, whichever call drove the device; a call receives no
\* more results than it issued requests; the renderer's fields never change.
C10_PerCallResources ==
    /\ \A c \in Calls :
           /\ staging_buf[c] # 0 => buffers[staging_buf[c]].creator = c
           /\ buffer[c] # 0 => buffers[buffer[c]].creator = c
           /\ bg[c] # NoBindGroup =>
                  bg[c].creator = c /\ buffers[bg[c].resource].creator = c
           /\ ray_gen_pipeline[c] # NoPipeline => ray_gen_pipeline[c].creator = c
           /\ Len(chan[c].values) <= MapRequestsBy(c)
           /\ MapRequestsBy(c) <= 1
    /\ \A i \in 1..Len(submissions) :
           \A k \in 1..Len(submissions[i].commands) :
               LET cmd == submissions[i].commands[k]
               IN  /\ buffers[cmd.src].creator = submissions[i].by
                   /\ cmd.dst # 0 => buffers[cmd.dst].creator = submissions[i].by
                   /\ cmd.op = "dispatch" =>
                          /\ cmd.bindCreator = submissions[i].by
                          /\ cmd.pipeline.creator = submissions[i].by
    /\ \A i \in 1..Len(mapRequests) :
           buffers[mapRequests[i].buffer].creator = mapRequests[i].sender
    /\ \A i \in 1..Len(mapLog) :
           buffers[mapLog[i].buffer].creator = mapLog[i].sender
    /\ \A b \in 1..Len(buffers) :
           buffers[b].mapState # "unmapped" =>
               buffer[buffers[b].creator] = b /\ chan[buffers[b].creator].created
    /\ renderer = NewRenderer

C10_Witness ==
    \E i \in 1..Len(mapLog) :
        /\ mapLog[i].firedBy # mapLog[i].sender
        /\ mapLog[i].status = "Ok"
        /\ outcome[mapLog[i].sender] = Returned
        /\ outcome[mapLog[i].firedBy] = Returned

====
